---- MODULE Spec2Model ----
(***************************************************************************)
(* Model of spark_manager.py: the contributor-list generator.  The script  *)
(* is one sequential pipeline: diff two tags' commit lists, confirm with   *)
(* the operator, classify the new commits by title, look every issue       *)
(* reference of the remaining commits up in the tracker, aggregate per     *)
(* author, write the contributors file and print the deferred warnings.    *)
(*                                                                         *)
(* Strings are sequences of tokens (a title is a sequence of words, an     *)
(* author identity is the raw author followed by "/" and issue keys, a     *)
(* report line is a sequence of pieces).  lower(), upper(), substring      *)
(* search and the issue regex are tables over the tokens.                  *)
(***************************************************************************)
EXTENDS Integers, Sequences, FiniteSets, TLC

\* Bounds of the explored inputs.
MaxCommits == 2
MaxPrev == 1
MaxTitleLen == 2

None == "<None>"
NoneTitle == <<"<None>">>

Range(s) == {s[i] : i \in DOMAIN s}

\* Every iteration order a Python set with the elements S can have.
Perms(S) == {s \in [1..Cardinality(S) -> S] :
               \A i, j \in 1..Cardinality(S) : s[i] = s[j] => i = j}

SeqsUpTo(S, n) == UNION {[1..k -> S] : k \in 0..n}

(***************************************************************************)
(* String primitives over tokens.                                          *)
(***************************************************************************)
Tokens == {"[RELEASE]", "CHANGES.txt", "Maintenance", "Reverted", "[DOCS]",
           "[SPARK-1]", "spark-2", "SPARK-3", "SPARK-", "[SQL]", "fix"}

\* str.lower() of one token.
lower_tok(t) ==
    CASE t = "[RELEASE]" -> "[release]"
      [] t = "CHANGES.txt" -> "changes.txt"
      [] t = "Maintenance" -> "maintenance"
      [] t = "Reverted" -> "reverted"
      [] t = "[DOCS]" -> "[docs]"
      [] t = "[SPARK-1]" -> "[spark-1]"
      [] t = "SPARK-3" -> "spark-3"
      [] t = "SPARK-" -> "spark-"
      [] t = "[SQL]" -> "[sql]"
      [] OTHER -> t

\* str.upper() of one token.
upper_tok(t) ==
    CASE t = "CHANGES.txt" -> "CHANGES.TXT"
      [] t = "Maintenance" -> "MAINTENANCE"
      [] t = "Reverted" -> "REVERTED"
      [] t = "spark-2" -> "SPARK-2"
      [] t = "fix" -> "FIX"
      [] OTHER -> t

lower(title) == [i \in DOMAIN title |-> lower_tok(title[i])]
upper(title) == [i \in DOMAIN title |-> upper_tok(title[i])]

\* The searched phrases that occur (case-sensitively) inside one token.
PhrasesIn(t) ==
    CASE t = "[release]" -> {"[release]"}
      [] t = "changes.txt" -> {"changes.txt"}
      [] t = "maintenance" -> {"maintenance"}
      [] t = "reverted" -> {"revert"}
      [] t = "[docs]" -> {"docs"}
      [] OTHER -> {}

\* phrase in s
contains(s, phrase) == \E i \in DOMAIN s : phrase \in PhrasesIn(s[i])

\* The match of SPARK-[0-9]+ inside one token, None when there is none.
IssueIn(t) ==
    CASE t = "[SPARK-1]" -> "SPARK-1"
      [] t = "SPARK-2" -> "SPARK-2"
      [] t = "SPARK-3" -> "SPARK-3"
      [] OTHER -> None

\* re.findall("SPARK-[0-9]+", s): every match, in order.
RECURSIVE re_findall(_)
re_findall(s) ==
    IF s = <<>> THEN <<>>
    ELSE (IF IssueIn(Head(s)) = None THEN <<>> ELSE <<IssueIn(Head(s))>>)
         \o re_findall(Tail(s))

(***************************************************************************)
(* Title predicates.                                                       *)
(***************************************************************************)
ReleasePhrases == {"[release]", "preparing spark release",
                   "preparing development version", "changes.txt"}
MaintenancePhrases == {"maintenance", "manually close"}

is_release(commit_title) ==
    \E phrase \in ReleasePhrases : contains(lower(commit_title), phrase)

is_maintenance(commit_title) ==
    \E phrase \in MaintenancePhrases : contains(lower(commit_title), phrase)

has_no_jira(commit_title) == re_findall(upper(commit_title)) = <<>>

is_revert(commit_title) == contains(lower(commit_title), "revert")

is_docs(commit_title) ==
    contains(lower(commit_title), "docs")
        \/ contains(lower(commit_title), "programming guide")

\* commit.get_title() or ""
TitleOrEmpty(commit) == IF commit.title = NoneTitle THEN <<>> ELSE commit.title

\* Faulty variant of Category: the revert rule tried before the release rule.
Category_revert_first(title) ==
    IF is_revert(title) THEN "reverts"
    ELSE IF is_release(title) THEN "releases"
    ELSE IF is_maintenance(title) THEN "maintenance"
    ELSE IF is_docs(title) THEN "filtered_commits"
    ELSE IF has_no_jira(title) THEN "nojiras"
    ELSE "filtered_commits"

\* The list the classification loop appends a commit with this title to.
Category(title) ==
    IF is_release(title) THEN "releases"
    ELSE IF is_maintenance(title) THEN "maintenance"
    ELSE IF is_revert(title) THEN "reverts"
    ELSE IF is_docs(title) THEN "filtered_commits"
    ELSE IF has_no_jira(title) THEN "nojiras"
    ELSE "filtered_commits"

(***************************************************************************)
(* Commit-set differ.                                                      *)
(***************************************************************************)
previous_hashes(prev) == {prev[i].hash : i \in DOMAIN prev}
previous_prs(prev) == {prev[i].pr : i \in {j \in DOMAIN prev : prev[j].pr # None}}

\* Faulty variant of IsNew: the PR number is not compared.
IsNew_hash_only(commit, prev) == commit.hash \notin previous_hashes(prev)

\* The condition of the new_commits comprehension.
IsNew(commit, prev) ==
    /\ commit.hash \notin previous_hashes(prev)
    /\ IF commit.pr # None THEN commit.pr \notin previous_prs(prev) ELSE TRUE

RECURSIVE Filter(_, _)
Filter(commits, prev) ==
    IF commits = <<>> THEN <<>>
    ELSE (IF IsNew(Head(commits), prev) THEN <<Head(commits)>> ELSE <<>>)
         \o Filter(Tail(commits), prev)

RECURSIVE InCategory(_, _)
InCategory(commits, cat) ==
    IF commits = <<>> THEN <<>>
    ELSE (IF Category(TitleOrEmpty(Head(commits))) = cat
          THEN <<Head(commits)>> ELSE <<>>)
         \o InCategory(Tail(commits), cat)

(***************************************************************************)
(* Collaborators from releaseutils, as the specification describes them.   *)
(***************************************************************************)
CORE_COMPONENT == "Core"

\* "Name <email>" shape.
is_valid_author(a) == a \in {"Ann <a@x.com>"}

\* The component tag inside one title token, None when there is none.
ComponentIn(t) == CASE t = "[SQL]" -> "SQL" [] OTHER -> None

\* Components inferred from the title, in order.
RECURSIVE find_components(_, _)
find_components(title, hash) ==
    IF title = <<>> THEN <<>>
    ELSE (IF ComponentIn(Head(title)) = None THEN <<>> ELSE <<ComponentIn(Head(title))>>)
         \o find_components(Tail(title), hash)

\* What the tracker holds for an issue key.
JiraIssue(issue) ==
    CASE issue = "SPARK-1" -> [type |-> "Bug", components |-> <<"SQL">>]
      [] issue = "SPARK-2" -> [type |-> "Documentation",
                               components |-> <<"Spark Core", "Weird">>]
      [] OTHER -> [type |-> "Epic", components |-> <<>>]

KnownIssueTypes == {"Bug", "Documentation"}
KnownComponents == {"Spark Core", "SQL"}

\* Canonical issue type; an unrecognized type passes through.
translate_issue_type(t) ==
    CASE t = "Bug" -> "bug fixes"
      [] t = "Documentation" -> "documentation"
      [] OTHER -> t

\* The warning translate_issue_type appends for an unrecognized type.
IssueTypeWarnings(t, issue) ==
    IF t \in KnownIssueTypes THEN <<>> ELSE <<<<"Unknown issue type", t, issue>>>>

\* Canonical component; an unrecognized label passes through.
translate_component(c) == CASE c = "Spark Core" -> "Core" [] OTHER -> c

\* The warnings translate_component appends over a component list.
RECURSIVE ComponentWarnings(_, _)
ComponentWarnings(cs, hash) ==
    IF cs = <<>> THEN <<>>
    ELSE (IF Head(cs) \in KnownComponents THEN <<>>
          ELSE <<<<"Unknown component", Head(cs), "in commit">>>>)
         \o ComponentWarnings(Tail(cs), hash)

\* "A", "A and B", "A, B, and C".
RECURSIVE CommaJoin(_)
CommaJoin(s) ==
    IF Len(s) = 0 THEN <<>>
    ELSE IF Len(s) = 1 THEN <<s[1]>>
    ELSE <<s[1], ", ">> \o CommaJoin(Tail(s))

nice_join(s) ==
    IF Len(s) = 0 THEN <<>>
    ELSE IF Len(s) = 1 THEN <<s[1]>>
    ELSE IF Len(s) = 2 THEN <<s[1], " and ", s[2]>>
    ELSE CommaJoin(SubSeq(s, 1, Len(s) - 1)) \o <<", and ", s[Len(s)]>>

(***************************************************************************)
(* Author aggregator.                                                      *)
(***************************************************************************)
\* "/".join(s)
RECURSIVE SlashJoin(_)
SlashJoin(s) ==
    IF Len(s) = 0 THEN <<>>
    ELSE IF Len(s) = 1 THEN <<s[1]>>
    ELSE <<s[1], "/">> \o SlashJoin(Tail(s))

\* f"{author}/{'/'.join(issues)}"
InvalidIdentity(raw, order) == <<raw, "/">> \o SlashJoin(order)

\* invalid_authors is an insertion-ordered dict: a sequence of
\* [author, issues], issues being the set in its current iteration order.
InvalidKeys(inv) == {inv[i].author : i \in DOMAIN inv}
InvalidIssues(inv, raw) ==
    IF raw \in InvalidKeys(inv)
    THEN (inv[CHOOSE i \in DOMAIN inv : inv[i].author = raw]).issues
    ELSE <<>>

\* The iteration orders the set can have after adding the issues: the order
\* is kept when nothing new is added, and is any order otherwise.
OrdersAfterAdd(order, issues) ==
    IF Range(issues) \subseteq Range(order) THEN {order}
    ELSE Perms(Range(order) \cup Range(issues))

SetInvalid(inv, raw, order) ==
    IF raw \in InvalidKeys(inv)
    THEN [i \in DOMAIN inv |->
            IF inv[i].author = raw THEN [author |-> raw, issues |-> order] ELSE inv[i]]
    ELSE Append(inv, [author |-> raw, issues |-> order])

\* Faulty variant of populate: no default component.
populate_no_default(info, who, issue_type, components) ==
    LET comps == components
        old == IF who \in DOMAIN info THEN info[who] ELSE <<>>
        has == \E i \in DOMAIN old : old[i].issue_type = issue_type
        new == IF has
               THEN [i \in DOMAIN old |->
                       IF old[i].issue_type = issue_type
                       THEN [old[i] EXCEPT !.comps = @ \cup comps] ELSE old[i]]
               ELSE Append(old, [issue_type |-> issue_type, comps |-> comps])
    IN  [k \in DOMAIN info \cup {who} |-> IF k = who THEN new ELSE info[k]]

\* populate(issue_type, components) on author_info for one author; an
\* author's record is the insertion-ordered sequence of [issue_type, comps].
populate(info, who, issue_type, components) ==
    LET comps == IF components = {} THEN {CORE_COMPONENT} ELSE components
        old == IF who \in DOMAIN info THEN info[who] ELSE <<>>
        has == \E i \in DOMAIN old : old[i].issue_type = issue_type
        new == IF has
               THEN [i \in DOMAIN old |->
                       IF old[i].issue_type = issue_type
                       THEN [old[i] EXCEPT !.comps = @ \cup comps] ELSE old[i]]
               ELSE Append(old, [issue_type |-> issue_type, comps |-> comps])
    IN  [k \in DOMAIN info \cup {who} |-> IF k = who THEN new ELSE info[k]]

\* Faulty variant of DocsOverride: issue references are not looked at.
DocsOverride_any_docs(title, issues) == is_docs(title)

\* The condition of the documentation override after the issue loop.
DocsOverride(title, issues) == is_docs(title) /\ issues = <<>>

(***************************************************************************)
(* Report writer.                                                          *)
(***************************************************************************)
\* Character order of the pieces an author identity is made of.
TokenRank(t) ==
    CASE t = "/" -> 1
      [] t = "Ann <a@x.com>" -> 2
      [] t = "SPARK-1" -> 3
      [] t = "SPARK-2" -> 4
      [] t = "SPARK-3" -> 5
      [] OTHER -> 6

RECURSIVE StrLeq(_, _)
StrLeq(a, b) ==
    IF a = <<>> THEN TRUE
    ELSE IF b = <<>> THEN FALSE
    ELSE IF Head(a) = Head(b) THEN StrLeq(Tail(a), Tail(b))
    ELSE TokenRank(Head(a)) < TokenRank(Head(b))

\* sorted(keys)
RECURSIVE sorted(_)
sorted(S) ==
    IF S = {} THEN <<>>
    ELSE LET m == CHOOSE x \in S : \A y \in S : StrLeq(x, y)
         IN  <<m>> \o sorted(S \ {m})

\* s[0].capitalize() of the first piece of a clause.
capitalize(t) ==
    CASE t = "bug fixes" -> "Bug fixes"
      [] t = "documentation" -> "Documentation"
      [] OTHER -> t

\* contribution[0].capitalize() + contribution[1:]
CapitalizeFirst(s) == <<capitalize(Head(s))>> \o Tail(s)

AllComponents(rec) == UNION {rec[i].comps : i \in DOMAIN rec}
IssueTypes(rec) == {rec[i].issue_type : i \in DOMAIN rec}

\* f"{issue_type} in {nice_join(comps)}" for every iteration order of comps.
ClauseChoices(e) == {<<e.issue_type, " in ">> \o nice_join(p) : p \in Perms(e.comps)}

\* "; ".join of one clause per issue type, in the dict's order.
RECURSIVE SemicolonJoin(_)
SemicolonJoin(rec) ==
    IF rec = <<>> THEN {<<>>}
    ELSE IF Len(rec) = 1 THEN ClauseChoices(rec[1])
    ELSE {c \o <<"; ">> \o r : c \in ClauseChoices(rec[1]), r \in SemicolonJoin(Tail(rec))}

\* Faulty variant of SemicolonJoin: clauses joined by ", ".
RECURSIVE CommaJoinClauses(_)
CommaJoinClauses(rec) ==
    IF rec = <<>> THEN {<<>>}
    ELSE IF Len(rec) = 1 THEN ClauseChoices(rec[1])
    ELSE {c \o <<", ">> \o r : c \in ClauseChoices(rec[1]), r \in CommaJoinClauses(Tail(rec))}

\* Faulty variant of Contribution: no single-component form, wrong separator.
Contribution_always_per_type(rec) == CommaJoinClauses(rec)

\* The contribution clauses the writer can produce for one author's record.
Contribution(rec) ==
    IF Cardinality(AllComponents(rec)) = 1
    THEN {nice_join(p) \o <<" in ", CHOOSE c \in AllComponents(rec) : TRUE>> :
             p \in Perms(IssueTypes(rec))}
    ELSE SemicolonJoin(rec)

\* f"{author} -- {contribution}" with the first character capitalized.
LinesFor(who, rec) == {who \o <<" -- ">> \o CapitalizeFirst(c) : c \in Contribution(rec)}

RECURSIVE SeqProduct(_)
SeqProduct(ss) ==
    IF ss = <<>> THEN {<<>>}
    ELSE {<<h>> \o t : h \in Head(ss), t \in SeqProduct(Tail(ss))}

\* Faulty variant of InvalidAuthorWarnings: the authors are not reported.
InvalidAuthorWarnings_none(inv) == <<>>

\* The warnings appended when invalid_authors is not empty.
InvalidAuthorWarnings(inv) ==
    IF inv = <<>> THEN <<>>
    ELSE <<<<"Found the following invalid authors:">>>>
         \o [i \in DOMAIN inv |-> <<"\t", inv[i].author>>]
         \o <<<<"Please run './translate-contributors.py' to translate them.">>>>

(***************************************************************************)
(* Inputs: the two commit lists get_commits returns.                       *)
(***************************************************************************)
Authors == {"Ann <a@x.com>", "bob"}
PRs == {None, "101", "102"}

MainTitles == {<<"[SPARK-1]", "[SQL]">>, <<"spark-2", "SPARK-3", "[SQL]">>, <<"[DOCS]">>,
               <<"[DOCS]", "SPARK-3">>, <<"Reverted", "[SPARK-1]">>}

\* Aggregation cases: titles and authors vary, nothing was released before.
MainInputs ==
    {[release |-> [i \in DOMAIN c |->
                     [hash |-> i, title |-> c[i][1], author |-> c[i][2], pr |-> None]],
      previous |-> <<>>] :
        c \in SeqsUpTo(MainTitles \X Authors, MaxCommits) \ {<<>>}}

\* Differ cases: hashes and PR numbers vary on both sides.
DiffInputs ==
    {[release |-> [i \in DOMAIN p |->
                     [hash |-> i, title |-> <<"[DOCS]">>, author |-> "Ann <a@x.com>",
                      pr |-> p[i]]],
      previous |-> q] :
        p \in SeqsUpTo(PRs, MaxCommits) \ {<<>>},
        q \in SeqsUpTo([hash : 0..MaxCommits, title : {<<"fix">>},
                        author : {"bob"}, pr : PRs], MaxPrev)}

\* Classifier cases: one commit with any short title, or none.
ClassifyInputs ==
    {[release |-> <<[hash |-> 1, title |-> t, author |-> a, pr |-> None]>>,
      previous |-> <<>>] :
        t \in SeqsUpTo(Tokens, MaxTitleLen) \cup {NoneTitle}, a \in {"bob"}}

InputCases == MainInputs \cup DiffInputs \cup ClassifyInputs

VARIABLES pc, release_commits, previous_release_commits, new_commits,
          releases, maintenance, reverts, nojiras, filtered_commits,
          answers, warnings, invalid_authors, author_info,
          ci, ii, author, commit_components,
          queries, contributors_file, stdout

vars == <<pc, release_commits, previous_release_commits, new_commits,
          releases, maintenance, reverts, nojiras, filtered_commits,
          answers, warnings, invalid_authors, author_info,
          ci, ii, author, commit_components,
          queries, contributors_file, stdout>>

inputs == <<release_commits, previous_release_commits>>
lists == <<releases, maintenance, reverts, nojiras, filtered_commits>>
accum == <<warnings, invalid_authors, author_info>>
loopv == <<ci, ii, author, commit_components>>

EmptyMap == [x \in {} |-> <<>>]

Event(kind, hash, text) == [kind |-> kind, hash |-> hash, text |-> text]

Init ==
    /\ \E inp \in InputCases :
        /\ release_commits = inp.release
        /\ previous_release_commits = inp.previous
    /\ pc = "diff"
    /\ new_commits = <<>>
    /\ releases = <<>> /\ maintenance = <<>> /\ reverts = <<>>
    /\ nojiras = <<>> /\ filtered_commits = <<>>
    /\ answers = [looks_correct |-> "unasked", proceed |-> "unasked"]
    /\ warnings = <<>>
    /\ invalid_authors = <<>>
    /\ author_info = EmptyMap
    /\ ci = 1 /\ ii = 1 /\ author = <<>> /\ commit_components = <<>>
    /\ queries = <<>>
    /\ contributors_file = [opened |-> FALSE, closed |-> FALSE, lines |-> <<>>]
    /\ stdout = <<>>

\* Lines 34-49: compute new_commits; exit when there are none.
Diff ==
    /\ pc = "diff"
    /\ new_commits' = Filter(release_commits, previous_release_commits)
    /\ IF new_commits' = <<>>
       THEN /\ pc' = "exited"
            /\ stdout' = Append(stdout, Event("exit", 0, <<<<"There are no new commits">>>>))
       ELSE /\ pc' = "confirm"
            /\ stdout' = stdout
    /\ UNCHANGED <<inputs, lists, answers, accum, loopv, queries, contributors_file>>

\* Faulty variant of AfterGate: a declined gate does not exit.
AfterGate_ignore_answer(ok, next) == next

\* Where the script goes after a yes/no gate.
AfterGate(ok, next) == IF ok THEN next ELSE "exited"

\* Lines 52-64: optional listing, then the "Does this look correct?" gate.
ConfirmGate ==
    /\ pc = "confirm"
    /\ \E show, ok \in BOOLEAN :
        /\ answers' = [answers EXCEPT !.looks_correct = IF ok THEN "yes" ELSE "no"]
        /\ pc' = AfterGate(ok, "classify")
        /\ stdout' = IF pc' = "exited"
                     THEN Append(stdout, Event("exit", 0, <<<<"Ok, exiting">>>>))
                     ELSE stdout
    /\ UNCHANGED <<inputs, new_commits, lists, accum, loopv, queries, contributors_file>>

\* Lines 66-102: the classification loop.
Classify ==
    /\ pc = "classify"
    /\ releases' = InCategory(new_commits, "releases")
    /\ maintenance' = InCategory(new_commits, "maintenance")
    /\ reverts' = InCategory(new_commits, "reverts")
    /\ nojiras' = InCategory(new_commits, "nojiras")
    /\ filtered_commits' = InCategory(new_commits, "filtered_commits")
    /\ pc' = "proceed"
    /\ UNCHANGED <<inputs, new_commits, answers, accum, loopv, queries,
                   contributors_file, stdout>>

\* Lines 104-146: ignored-commit warning, the "Ok to proceed?" gate, and the
\* empty accumulators.
ProceedGate ==
    /\ pc = "proceed"
    /\ \E show, ok \in BOOLEAN :
        /\ answers' = [answers EXCEPT !.proceed = IF ok THEN "yes" ELSE "no"]
        /\ pc' = AfterGate(ok, "commit")
        /\ stdout' = IF pc' = "exited"
                     THEN Append(stdout, Event("exit", 0, <<<<"Ok, exiting.">>>>))
                     ELSE stdout
    /\ warnings' = <<>>
    /\ invalid_authors' = <<>>
    /\ author_info' = EmptyMap
    /\ ci' = 1
    /\ UNCHANGED <<inputs, new_commits, lists, ii, author, commit_components,
                   queries, contributors_file>>

\* Faulty variant of AggregationQueue: the loop runs over every new commit.
AggregationQueue_all_new == new_commits

\* Line 147: the commits the aggregation loop iterates over.
AggregationQueue == filtered_commits

CurrentIssues == re_findall(upper(AggregationQueue[ci].title))

\* Lines 147-168: one commit's hash, title, issues, author identity and
\* inferred components.
BeginCommit ==
    /\ pc = "commit"
    /\ ci <= Len(AggregationQueue)
    /\ LET commit == AggregationQueue[ci]
           issues == re_findall(upper(commit.title))
       IN  /\ IF ~is_valid_author(commit.author)
              THEN \E order \in OrdersAfterAdd(
                                  InvalidIssues(invalid_authors, commit.author), issues) :
                      /\ invalid_authors' = SetInvalid(invalid_authors, commit.author, order)
                      /\ author' = InvalidIdentity(commit.author, order)
              ELSE /\ invalid_authors' = invalid_authors
                   /\ author' = <<commit.author>>
           /\ commit_components' = find_components(commit.title, commit.hash)
    /\ ii' = 1
    /\ pc' = "issues"
    /\ UNCHANGED <<inputs, new_commits, lists, answers, warnings, author_info, ci,
                   queries, contributors_file, stdout>>

\* Lines 170-177: the tracker answers for the next issue reference.
LookupOk ==
    /\ pc = "issues"
    /\ ii <= Len(CurrentIssues)
    /\ LET commit == AggregationQueue[ci]
           issue == CurrentIssues[ii]
           jira_issue == JiraIssue(issue)
           jira_type == translate_issue_type(jira_issue.type)
           jira_components == [i \in DOMAIN jira_issue.components |->
                                 translate_component(jira_issue.components[i])]
           all_components == Range(jira_components \o commit_components)
       IN  /\ warnings' = warnings \o IssueTypeWarnings(jira_issue.type, issue)
                                   \o ComponentWarnings(jira_issue.components, commit.hash)
           /\ author_info' = populate(author_info, author, jira_type, all_components)
           /\ queries' = Append(queries, [hash |-> commit.hash, issue |-> issue, ok |-> TRUE])
    /\ ii' = ii + 1
    /\ UNCHANGED <<pc, inputs, new_commits, lists, answers, invalid_authors, ci, author,
                   commit_components, contributors_file, stdout>>

\* Faulty variant of LookupFail: the rest of the commit's issues is skipped.
LookupFail_abandons_commit ==
    /\ pc = "issues"
    /\ ii <= Len(CurrentIssues)
    /\ LET commit == AggregationQueue[ci]
           issue == CurrentIssues[ii]
       IN  /\ queries' = Append(queries, [hash |-> commit.hash, issue |-> issue, ok |-> FALSE])
           /\ stdout' = Append(stdout, Event("error", commit.hash, <<<<"Unexpected error", issue>>>>))
    /\ ii' = Len(CurrentIssues) + 1
    /\ UNCHANGED <<pc, inputs, new_commits, lists, answers, accum, ci, author,
                   commit_components, contributors_file>>

\* Lines 170-179: the tracker lookup of the next issue reference raises.
LookupFail ==
    /\ pc = "issues"
    /\ ii <= Len(CurrentIssues)
    /\ LET commit == AggregationQueue[ci]
           issue == CurrentIssues[ii]
       IN  /\ queries' = Append(queries, [hash |-> commit.hash, issue |-> issue, ok |-> FALSE])
           /\ stdout' = Append(stdout, Event("error", commit.hash, <<<<"Unexpected error", issue>>>>))
    /\ ii' = ii + 1
    /\ UNCHANGED <<pc, inputs, new_commits, lists, answers, accum, ci, author,
                   commit_components, contributors_file>>

\* Lines 180-182: the documentation override and the progress line.
EndCommit ==
    /\ pc = "issues"
    /\ ii > Len(CurrentIssues)
    /\ LET commit == AggregationQueue[ci]
       IN  /\ author_info' =
                 IF DocsOverride(commit.title, CurrentIssues)
                 THEN populate(author_info, author, "documentation", Range(commit_components))
                 ELSE author_info
           /\ stdout' = Append(stdout, Event("processed", commit.hash, <<author>>))
    /\ ci' = ci + 1
    /\ pc' = "commit"
    /\ UNCHANGED <<inputs, new_commits, lists, answers, warnings, invalid_authors, ii,
                   author, commit_components, queries, contributors_file>>

\* Lines 183-203: open the contributors file and write one line per author.
WriteReport ==
    /\ pc = "commit"
    /\ ci > Len(AggregationQueue)
    /\ LET authors == sorted(DOMAIN author_info)
       IN  \E lines \in SeqProduct([i \in DOMAIN authors |->
                                      LinesFor(authors[i], author_info[authors[i]])]) :
              contributors_file' = [opened |-> TRUE, closed |-> TRUE, lines |-> lines]
    /\ stdout' = Append(stdout, Event("written", 0, <<>>))
    /\ pc' = "warn"
    /\ UNCHANGED <<inputs, new_commits, lists, answers, accum, loopv, queries>>

\* Lines 205-218: invalid-author warnings, then the warnings block.
ReportWarnings ==
    /\ pc = "warn"
    /\ warnings' = warnings \o InvalidAuthorWarnings(invalid_authors)
    /\ stdout' = IF warnings' # <<>>
                 THEN Append(stdout, Event("warnings", 0, warnings'))
                 ELSE stdout
    /\ pc' = "done"
    /\ UNCHANGED <<inputs, new_commits, lists, answers, invalid_authors, author_info,
                   loopv, queries, contributors_file>>

Next ==
    \/ Diff
    \/ ConfirmGate
    \/ Classify
    \/ ProceedGate
    \/ BeginCommit
    \/ LookupOk
    \/ LookupFail
    \/ EndCommit
    \/ WriteReport
    \/ ReportWarnings

(***************************************************************************)
(* Properties.                                                             *)
(***************************************************************************)
Hashes(commits) == {commits[i].hash : i \in DOMAIN commits}
Ignored == Range(releases) \cup Range(maintenance) \cup Range(reverts) \cup Range(nojiras)
IssuesOf(commit) == re_findall(upper(commit.title))
QueuedCommit(h) == CHOOSE c \in Range(filtered_commits) : c.hash = h
ProcessedEvents == {i \in DOMAIN stdout : stdout[i].kind = "processed"}
WarningEvents == {i \in DOMAIN stdout : stdout[i].kind = "warnings"}
WrittenEvents == {i \in DOMAIN stdout : stdout[i].kind = "written"}
OkIssues(h) == {queries[i].issue : i \in {j \in DOMAIN queries :
                                            queries[j].hash = h /\ queries[j].ok}}
QueriesOf(h) == {i \in DOMAIN queries : queries[i].hash = h}
Classified == answers.looks_correct = "yes" /\ pc # "classify"
BetweenCommits == pc \in {"commit", "warn", "done"}

\* C1: a release commit is in new_commits iff its hash is not a previous
\* hash and it has no PR number or its PR number is not a previous non-null
\* PR number; new_commits keeps the order of the release list.
C1_DifferKeepsExactlyTheNewCommits ==
    pc # "diff" =>
      /\ \A i \in DOMAIN release_commits :
           LET c == release_commits[i]
               hashSeen == \E k \in DOMAIN previous_release_commits :
                              previous_release_commits[k].hash = c.hash
               prSeen == \E k \in DOMAIN previous_release_commits :
                            /\ previous_release_commits[k].pr # None
                            /\ previous_release_commits[k].pr = c.pr
           IN  (c \in Range(new_commits)) <=> (~hashSeen /\ (c.pr = None \/ ~prSeen))
      /\ Range(new_commits) \subseteq Range(release_commits)
      /\ \A j, k \in DOMAIN new_commits :
           j < k => \E a, b \in DOMAIN release_commits :
                       /\ a < b
                       /\ release_commits[a] = new_commits[j]
                       /\ release_commits[b] = new_commits[k]

\* C1 witness: a cherry-pick (new hash, previous PR number) was dropped and a
\* later commit with another PR number was kept.
C1_Witness ==
    /\ pc = "confirm"
    /\ \E i, j \in DOMAIN release_commits :
         /\ i < j
         /\ release_commits[i].hash \notin Hashes(previous_release_commits)
         /\ release_commits[i].pr # None
         /\ \E k \in DOMAIN previous_release_commits :
               previous_release_commits[k].pr = release_commits[i].pr
         /\ release_commits[i] \notin Range(new_commits)
         /\ release_commits[j].pr # None
         /\ release_commits[j] \in Range(new_commits)

\* C2: every new commit is in exactly one of the five lists, and the list is
\* the one of the first rule its title matches in the order release,
\* maintenance, revert, documentation, no-issue, normal.
C2_FirstMatchingRuleDecidesTheList ==
    Classified =>
      /\ Len(releases) + Len(maintenance) + Len(reverts) + Len(nojiras)
           + Len(filtered_commits) = Len(new_commits)
      /\ \A i \in DOMAIN new_commits :
           LET c == new_commits[i]
               t == TitleOrEmpty(c)
               rel == is_release(t)
               mnt == is_maintenance(t)
               rev == is_revert(t)
               doc == is_docs(t)
               noj == has_no_jira(t)
               inRel == c \in Range(releases)
               inMnt == c \in Range(maintenance)
               inRev == c \in Range(reverts)
               inNoj == c \in Range(nojiras)
               inFil == c \in Range(filtered_commits)
               n == (IF inRel THEN 1 ELSE 0) + (IF inMnt THEN 1 ELSE 0)
                      + (IF inRev THEN 1 ELSE 0) + (IF inNoj THEN 1 ELSE 0)
                      + (IF inFil THEN 1 ELSE 0)
           IN  /\ n = 1
               /\ rel => inRel
               /\ ~rel /\ mnt => inMnt
               /\ ~rel /\ ~mnt /\ rev => inRev
               /\ ~rel /\ ~mnt /\ ~rev /\ doc => inFil
               /\ ~rel /\ ~mnt /\ ~rev /\ ~doc /\ noj => inNoj
               /\ ~rel /\ ~mnt /\ ~rev /\ ~doc /\ ~noj => inFil

\* C2 witness: a title with both "[release]" and "revert" sits in releases.
C2_Witness ==
    /\ pc = "proceed"
    /\ \E c \in Range(releases) :
         /\ "[RELEASE]" \in Range(c.title)
         /\ "Reverted" \in Range(c.title)
         /\ c \notin Range(reverts)

\* C3 as claimed: every processed commit of filtered_commits has an entry in
\* author_info under its author identity, whatever the lookups returned.
C3_EveryProcessedCommitHasAnEntry ==
    \A i \in ProcessedEvents :
        /\ stdout[i].text[1] \in DOMAIN author_info
        /\ author_info[stdout[i].text[1]] # <<>>

\* Whether the commit with this hash called populate at least once.
Contributed(h) ==
    \/ OkIssues(h) # {}
    \/ is_docs(QueuedCommit(h).title) /\ IssuesOf(QueuedCommit(h)) = <<>>

\* C3 amended: a processed commit with a successful lookup, or a documentation
\* title without issue reference, has an entry under its identity for every
\* successful lookup, never with an empty component set and with the core
\* component when none was found; an identity none of whose commits had a
\* successful lookup or the documentation override has no entry.
C3_ContributingCommitsHaveAnEntry ==
    /\ \A i \in ProcessedEvents :
         LET h == stdout[i].hash
             who == stdout[i].text[1]
             c == QueuedCommit(h)
             inferred == Range(find_components(c.title, h))
         IN  Contributed(h) =>
               /\ who \in DOMAIN author_info
               /\ author_info[who] # <<>>
               /\ \A k \in DOMAIN author_info[who] : author_info[who][k].comps # {}
               /\ \A issue \in OkIssues(h) :
                    \E k \in DOMAIN author_info[who] :
                       /\ author_info[who][k].issue_type
                             = translate_issue_type(JiraIssue(issue).type)
                       /\ inferred \subseteq author_info[who][k].comps
                       /\ (inferred = {} /\ JiraIssue(issue).components = <<>>)
                             => CORE_COMPONENT \in author_info[who][k].comps
    /\ BetweenCommits =>
         \A i \in ProcessedEvents :
            (\A j \in ProcessedEvents :
                stdout[j].text = stdout[i].text => ~Contributed(stdout[j].hash))
              => stdout[i].text[1] \notin DOMAIN author_info

\* C3 witness: one commit whose only lookup succeeded got the core default,
\* and another commit of the run had every lookup fail and left no entry.
C3_Witness ==
    /\ pc = "done"
    /\ \E i, j \in ProcessedEvents :
         /\ OkIssues(stdout[i].hash) = {"SPARK-3"}
         /\ find_components(QueuedCommit(stdout[i].hash).title, 0) = <<>>
         /\ \E k \in DOMAIN author_info[stdout[i].text[1]] :
               author_info[stdout[i].text[1]][k].comps = {CORE_COMPONENT}
         /\ QueriesOf(stdout[j].hash) # {}
         /\ OkIssues(stdout[j].hash) = {}
         /\ stdout[j].text[1] \notin DOMAIN author_info

\* A step in which a tracker lookup failed.
FailedLookupStep ==
    /\ Len(queries') = Len(queries) + 1
    /\ ~queries'[Len(queries')].ok

\* C4: a failed lookup leaves author_info unchanged, does not end the run,
\* and moves on to the next issue reference of the same commit; at the end
\* every issue reference of every queued commit was looked up once and every
\* queued commit was processed.
C4_FailedLookupIsIsolated ==
    /\ [][FailedLookupStep =>
            /\ author_info' = author_info
            /\ pc' = "issues"
            /\ ci' = ci
            /\ ii' = ii + 1]_vars
    /\ [](pc \in {"warn", "done"} =>
            /\ \A i \in DOMAIN filtered_commits :
                 LET c == filtered_commits[i]
                 IN  /\ Cardinality(QueriesOf(c.hash)) = Len(IssuesOf(c))
                     /\ \A k \in DOMAIN IssuesOf(c) :
                          \E q \in QueriesOf(c.hash) : queries[q].issue = IssuesOf(c)[k]
                     /\ \E e \in ProcessedEvents : stdout[e].hash = c.hash
            /\ \A a \in DOMAIN queries :
                 queries[a].ok =>
                    \E who \in DOMAIN author_info : \E k \in DOMAIN author_info[who] :
                       author_info[who][k].issue_type
                          = translate_issue_type(JiraIssue(queries[a].issue).type))

\* C4 witness: a failed lookup was followed by a successful lookup of the same
\* commit and by a successful lookup of a later commit.
C4_Witness ==
    /\ pc = "done"
    /\ \E a, b, c \in DOMAIN queries :
         /\ a < b /\ b < c
         /\ ~queries[a].ok /\ queries[b].ok /\ queries[c].ok
         /\ queries[a].hash = queries[b].hash
         /\ queries[c].hash # queries[a].hash

\* C5: a run with no new commits, or with either gate declined, has exited
\* with the contributors file never opened and no tracker query made; the
\* file is opened, and the tracker queried, only with new commits and both
\* gates accepted.
C5_NoOutputOnFatalExit ==
    /\ pc = "exited" => ~contributors_file.opened /\ queries = <<>>
    /\ (pc # "diff" /\ new_commits = <<>>) => pc = "exited"
    /\ answers.looks_correct = "no" => pc = "exited"
    /\ answers.proceed = "no" => pc = "exited"
    /\ (contributors_file.opened \/ queries # <<>> \/ pc \in {"issues", "warn", "done"}) =>
          /\ new_commits # <<>>
          /\ answers.looks_correct = "yes"
          /\ answers.proceed = "yes"

\* C5 witness: the second gate was declined with commits waiting.
C5_Witness ==
    /\ pc = "exited"
    /\ answers.looks_correct = "yes"
    /\ answers.proceed = "no"
    /\ filtered_commits # <<>>
    /\ ~contributors_file.opened

\* The pieces of s between the occurrences of sep.
RECURSIVE Split(_, _)
Split(s, sep) ==
    IF \A i \in DOMAIN s : s[i] # sep THEN <<s>>
    ELSE LET k == CHOOSE i \in DOMAIN s : s[i] = sep /\ \A j \in 1..(i - 1) : s[j] # sep
         IN  <<SubSeq(s, 1, k - 1)>> \o Split(SubSeq(s, k + 1, Len(s)), sep)

\* Whether body renders the set S by the joining rule in some order.
JoinsSet(body, S) ==
    \E p \in Perms(S) :
       body = IF Len(p) = 1 THEN <<p[1]>>
              ELSE IF Len(p) = 2 THEN <<p[1], " and ", p[2]>>
              ELSE IF Len(p) = 3 THEN <<p[1], ", ", p[2], ", and ", p[3]>>
              ELSE nice_join(p)

\* The same piece with its first character in lower case, when it has one.
Uncapitalized(t) == {u \in {"bug fixes", "documentation", t} : capitalize(u) = t}

\* Whether the clause is the one the claim describes for the record.
ClauseMatches(clause, rec) ==
    LET comps == UNION {rec[i].comps : i \in DOMAIN rec}
        types == {rec[i].issue_type : i \in DOMAIN rec}
    IN  IF Cardinality(comps) = 1
        THEN /\ Len(clause) >= 3
             /\ clause[Len(clause)] \in comps
             /\ clause[Len(clause) - 1] = " in "
             /\ capitalize(clause[1]) = clause[1]
             /\ \E first \in Uncapitalized(clause[1]) :
                   JoinsSet(<<first>> \o SubSeq(clause, 2, Len(clause) - 2), types)
        ELSE LET parts == Split(clause, "; ")
             IN  /\ Len(parts) = Len(rec)
                 /\ \A k \in DOMAIN parts :
                      /\ Len(parts[k]) >= 3
                      /\ parts[k][1] = IF k = 1 THEN capitalize(rec[k].issue_type)
                                       ELSE rec[k].issue_type
                      /\ parts[k][2] = " in "
                      /\ JoinsSet(SubSeq(parts[k], 3, Len(parts[k])), rec[k].comps)

\* C6: the file holds, for every author of author_info, the line
\* "<author> -- <clause>", the clause being "<joined issue types> in
\* <component>" when the author has exactly one component overall and one
\* "<issue type> in <joined components>" per issue type in insertion order,
\* joined by "; ", otherwise, with only its first character capitalized.
C6_ReportLineFormat ==
    contributors_file.closed =>
      /\ Len(contributors_file.lines) = Cardinality(DOMAIN author_info)
      /\ \A who \in DOMAIN author_info :
           \E i \in DOMAIN contributors_file.lines :
              LET line == contributors_file.lines[i]
              IN  /\ Len(line) > Len(who) + 1
                  /\ SubSeq(line, 1, Len(who)) = who
                  /\ line[Len(who) + 1] = " -- "
                  /\ ClauseMatches(SubSeq(line, Len(who) + 2, Len(line)), author_info[who])

\* C6 witness: the file holds a line for an author with two issue types over
\* several components, and the first of them was capitalized.
C6_Witness ==
    /\ contributors_file.closed
    /\ \E who \in DOMAIN author_info :
         /\ Len(author_info[who]) = 2
         /\ author_info[who][1].issue_type = "documentation"
         /\ Cardinality(author_info[who][1].comps) = 3
         /\ \E i \in DOMAIN contributors_file.lines :
               /\ SubSeq(contributors_file.lines[i], 1, Len(who)) = who
               /\ "; " \in Range(contributors_file.lines[i])
               /\ "Documentation" \in Range(contributors_file.lines[i])

\* C7 as claimed: after aggregation all contributions of an invalid raw
\* author are under one identity, which carries every issue reference
\* recorded for that author, and the report has one line for the author.
C7_OneFinalIdentityPerInvalidAuthor ==
    pc \in {"warn", "done"} =>
      \A i \in DOMAIN invalid_authors :
         LET raw == invalid_authors[i].author
             keys == {k \in DOMAIN author_info : k[1] = raw}
             rows == {l \in DOMAIN contributors_file.lines :
                         contributors_file.lines[l][1] = raw}
         IN  /\ Cardinality(keys) <= 1
             /\ Cardinality(rows) <= 1
             /\ \A k \in keys :
                  \E p \in Perms(Range(invalid_authors[i].issues)) :
                     k = InvalidIdentity(raw, p)

Merged(rec, issue_type, comps) ==
    IF \E k \in DOMAIN rec : rec[k].issue_type = issue_type
    THEN [k \in DOMAIN rec |->
            IF rec[k].issue_type = issue_type
            THEN [issue_type |-> issue_type, comps |-> rec[k].comps \cup comps]
            ELSE rec[k]]
    ELSE rec \o <<[issue_type |-> issue_type, comps |-> comps]>>

C10_IgnoredCommitsLeaveNoTrace ==
    Classified =>
      LET queuedAuthors == {filtered_commits[i].author : i \in DOMAIN filtered_commits}
          ignoredOnly == {c.author : c \in Ignored} \ queuedAuthors
      IN  /\ \A q \in DOMAIN queries :
               /\ queries[q].hash \in Hashes(filtered_commits)
               /\ queries[q].hash \notin {c.hash : c \in Ignored}
          /\ \A e \in ProcessedEvents : stdout[e].hash \in Hashes(filtered_commits)
          /\ \A k \in DOMAIN author_info : k[1] \in queuedAuthors
          /\ \A i \in DOMAIN invalid_authors : invalid_authors[i].author \in queuedAuthors
          /\ \A l \in DOMAIN contributors_file.lines :
               contributors_file.lines[l][1] \notin ignoredOnly
          /\ Len(filtered_commits) = 0 /\ contributors_file.closed
                => contributors_file.lines = <<>>

\* C10 witness: a finished run in which a reverted commit with an issue
\* reference, by an invalid author with no other commit, left no trace while
\* another author got a line.
C10_Witness ==
    /\ pc = "done"
    /\ \E c \in Range(reverts) :
         /\ IssuesOf(c) # <<>>
         /\ ~is_valid_author(c.author)
         /\ \A d \in Range(filtered_commits) : d.author # c.author
    /\ invalid_authors = <<>>
    /\ queries # <<>>
    /\ Len(contributors_file.lines) = 1

Spec == Init /\ [][Next]_vars
====
